---- MODULE Spec2Model ----
(***************************************************************************)
(* The relationship graph of the record-data package: the node table, the  *)
(* remote ("coalesce") and local ("sync") flush queues, the transaction of  *)
(* one remote flush, and the removeFromRelatedRecords operation.            *)
(*                                                                          *)
(* Everything runs on one thread and every public call runs to completion, *)
(* so each call (and each scheduled callback) is one action.  An `assert`   *)
(* that fails throws: the call stops there, what it changed before stays    *)
(* changed, and the message is recorded in last.err.                        *)
(***************************************************************************)
EXTENDS Naturals, Sequences, FiniteSets, TLC

\* ------------------------------------------------------------------ bounds
\* Most operations that may wait in one of the three remote buckets.
MaxBucket == 1
\* Cap on an edge's transactionRef (the counter has no bound in the code).
MaxRef == 2

\* ------------------------------------------------------------- identifiers
Null == "null"
Posts == {"p1"}
Comments == {"c1", "c2"}
Ids == Posts \cup Comments
TypeOf(id) == IF id \in Posts THEN "post" ELSE "comment"

\* The schema: post.comments is a hasMany and post.best a belongsTo, both to
\* comment, and comment declares no field for either, so each gets an implicit
\* inverse on the comment side.
Fields == {"comments", "best", "impComments", "impBest"}
NoDef == [kind |-> "none", inverseKey |-> "", inverseIsAsync |-> FALSE]

\* upgradeDefinition + isLHS: the definition of `field` on `type`, NoDef when
\* the schema cannot explain the field.
upgradeDefinition(type, field) ==
  CASE type = "post" /\ field = "comments" ->
         [kind |-> "hasMany", inverseKey |-> "impComments", inverseIsAsync |-> FALSE]
    [] type = "post" /\ field = "best" ->
         [kind |-> "belongsTo", inverseKey |-> "impBest", inverseIsAsync |-> FALSE]
    [] type = "comment" /\ field = "impComments" ->
         [kind |-> "implicit", inverseKey |-> "comments", inverseIsAsync |-> TRUE]
    [] type = "comment" /\ field = "impBest" ->
         [kind |-> "implicit", inverseKey |-> "best", inverseIsAsync |-> FALSE]
    [] OTHER -> NoDef

DefOf(id, field) == upgradeDefinition(TypeOf(id), field)

\* ------------------------------------------------------------------- edges
\* A slot of a node: no key at all, a key whose value is undefined, or an edge.
Absent == [kind |-> "absent"]
Undefined == [kind |-> "undefined"]

createCollectionRelationship ==
  [kind |-> "hasMany", localMembers |-> {}, remoteMembers |-> {},
   localState |-> <<>>, remoteState |-> <<>>,
   hasReceivedData |-> FALSE, transactionRef |-> 0]

createResourceRelationship ==
  [kind |-> "belongsTo", localState |-> Null, remoteState |-> Null,
   hasReceivedData |-> FALSE, transactionRef |-> 0]

createImplicitRelationship ==
  [kind |-> "implicit", localMembers |-> {}, remoteMembers |-> {}]

isEdge(slot) == slot.kind \in {"hasMany", "belongsTo", "implicit"}
isImplicit(rel) == rel.kind = "implicit"
isHasMany(rel) == rel.kind = "hasMany"
isBelongsTo(rel) == rel.kind = "belongsTo"

\* A node of the table: identifiers.get(id) is undefined when ~exists; keys is
\* Object.keys of the node's dictionary, the fields in the order their slots
\* were first set.
NoRels == [f \in Fields |-> Absent]
NoNode == [exists |-> FALSE, rels |-> NoRels, keys |-> <<>>]

\* ---------------------------------------------------------------- sequences
Range(s) == {s[i] : i \in 1..Len(s)}

\* Array.prototype.indexOf, 1-based; 0 stands for -1.
IndexOf(s, v) ==
  IF v \in Range(s) THEN CHOOSE i \in 1..Len(s) : s[i] = v /\ \A j \in 1..(i - 1) : s[j] # v
  ELSE 0

\* s.splice(i, 1)
Splice(s, i) == SubSeq(s, 1, i - 1) \o SubSeq(s, i + 1, Len(s))

\* The first occurrence of each entry, in order.
RECURSIVE Dedupe(_)
Dedupe(s) ==
  IF s = <<>> THEN <<>>
  ELSE LET r == Dedupe(SubSeq(s, 1, Len(s) - 1))
       IN IF s[Len(s)] \in Range(r) THEN r ELSE Append(r, s[Len(s)])

\* The entries of s for which keep holds, in order.
Keep(s, keep) == SelectSeq(s, LAMBDA v : v \in keep)

\* --------------------------------------------------------- the graph value
\* The operations below take the graph's mutable fields as one record g and
\* return the record after the call:
\*   identifiers   the node table
\*   tx            _transaction: open = FALSE is null, rels the edges in the Set
\*   updated       _updatedRelationships: [id, field, stale]; stale marks an
\*                 edge object whose node has since left the table
\*   willSyncLocal _willSyncLocal
\*   syncCallbacks the 'sync' callbacks handed to the scheduler and not yet run
\*   applied       the operations update has completed in the running flush
\*   err           "" or the message of the assertion that stopped the call
Rel(g, id, f) == g.identifiers[id].rels[f]

\* relationships[f] = rel: a key that was not there joins the end of the keys.
SetRel(g, id, f, rel) ==
  [g EXCEPT !.identifiers[id].rels[f] = rel,
            !.identifiers[id].keys = IF g.identifiers[id].rels[f] = Absent
                                     THEN Append(@, f) ELSE @]

Fail(g, msg) == [g EXCEPT !.err = msg]

has(g, id, f) == g.identifiers[id].exists /\ g.identifiers[id].rels[f] # Absent
                   /\ g.identifiers[id].rels[f] # Undefined

\* Graph.get without the test `if (!relationship)`: the edge is made anew on
\* every call.
getAlwaysFresh(g, id, f) ==
  LET g1 == [g EXCEPT !.identifiers[id].exists = TRUE]
      meta == DefOf(id, f)
  IN IF meta = NoDef THEN Fail(g1, "Could not determine relationship information")
     ELSE IF meta.kind = "belongsTo" THEN SetRel(g1, id, f, createResourceRelationship)
     ELSE IF meta.kind = "hasMany" THEN SetRel(g1, id, f, createCollectionRelationship)
     ELSE SetRel(g1, id, f, createImplicitRelationship)

\* Graph.get: creates the node, then the edge of the shape the definition gives.
get(g, id, f) ==
  LET g1 == [g EXCEPT !.identifiers[id].exists = TRUE]
      meta == DefOf(id, f)
  IN IF isEdge(Rel(g1, id, f)) THEN g1
     ELSE IF meta = NoDef THEN Fail(g1, "Could not determine relationship information")
     ELSE IF meta.kind = "belongsTo" THEN SetRel(g1, id, f, createResourceRelationship)
     ELSE IF meta.kind = "hasMany" THEN SetRel(g1, id, f, createCollectionRelationship)
     ELSE SetRel(g1, id, f, createImplicitRelationship)

\* Graph._addToTransaction
_addToTransaction(g, id, f) ==
  IF ~g.tx.open THEN Fail(g, "expected a transaction")
  ELSE [g EXCEPT !.identifiers[id].rels[f].transactionRef = @ + 1,
                 !.tx.rels = @ \cup {<<id, f>>}]

\* A remote operation adds the collection or resource edge it touched to the
\* transaction of the flush it runs in; outside a flush there is none.
touch(g, id, f, isRemote) ==
  IF isRemote /\ g.tx.open /\ ~isImplicit(Rel(g, id, f)) THEN _addToTransaction(g, id, f)
  ELSE g

\* Graph._scheduleLocalSync
_scheduleLocalSync(g, id, f) ==
  LET g1 == [g EXCEPT !.updated = @ \cup {[id |-> id, field |-> f, stale |-> FALSE]}]
  IN IF ~g1.willSyncLocal
     THEN [g1 EXCEPT !.willSyncLocal = TRUE, !.syncCallbacks = @ + 1]
     ELSE g1

\* ------------------------------------------------------ inverse maintenance
\* The edge rel without value on the side isRemote selects.
withoutOnSide(rel, value, isRemote) ==
  IF isBelongsTo(rel) THEN
    IF isRemote
    THEN [rel EXCEPT !.remoteState = IF @ = value THEN Null ELSE @]
    ELSE [rel EXCEPT !.localState = IF @ = value THEN Null ELSE @]
  ELSE IF isHasMany(rel) THEN
    IF isRemote
    THEN [rel EXCEPT !.remoteMembers = @ \ {value},
                     !.remoteState = Keep(@, Range(@) \ {value})]
    ELSE [rel EXCEPT !.localMembers = @ \ {value},
                     !.localState = Keep(@, Range(@) \ {value})]
  ELSE
    IF isRemote
    THEN [rel EXCEPT !.remoteMembers = @ \ {value}]
    ELSE [rel EXCEPT !.localMembers = @ \ {value}]

\* The edge rel with value on the side isRemote selects.
withOnSide(rel, value, isRemote) ==
  IF isBelongsTo(rel) THEN
    IF isRemote THEN [rel EXCEPT !.remoteState = value]
    ELSE [rel EXCEPT !.localState = value]
  ELSE IF isHasMany(rel) THEN
    IF isRemote
    THEN [rel EXCEPT !.remoteMembers = @ \cup {value},
                     !.remoteState = IF value \in Range(@) THEN @ ELSE Append(@, value)]
    ELSE [rel EXCEPT !.localMembers = @ \cup {value},
                     !.localState = IF value \in Range(@) THEN @ ELSE Append(@, value)]
  ELSE
    IF isRemote
    THEN [rel EXCEPT !.remoteMembers = @ \cup {value}]
    ELSE [rel EXCEPT !.localMembers = @ \cup {value}]

\* The body of removeFromInverse once the inverse edge is there (g is the
\* graph after the lookup).
unlinkInverse(g, identifier, key, value, isRemote) ==
  IF g.err # "" THEN g
  ELSE touch(SetRel(g, identifier, key,
                    withoutOnSide(Rel(g, identifier, key), value, isRemote)),
             identifier, key, isRemote)

\* removeFromInverse(graph, identifier, key, value, isRemote): the mirrored
\* removal on identifier's edge at key.
removeFromInverse(g, identifier, key, value, isRemote) ==
  unlinkInverse(get(g, identifier, key), identifier, key, value, isRemote)

linkInverse(g, identifier, key, value, isRemote) ==
  IF g.err # "" THEN g
  ELSE touch(SetRel(g, identifier, key,
                    withOnSide(Rel(g, identifier, key), value, isRemote)),
             identifier, key, isRemote)

\* addToInverse(graph, identifier, key, value, isRemote): the mirrored addition.
addToInverse(g, identifier, key, value, isRemote) ==
  linkInverse(get(g, identifier, key), identifier, key, value, isRemote)

\* -------------------------------------------------- removeFromRelatedRecords
\* removeRelatedRecord with the splice of line 50 left out: the value leaves
\* the set and stays in the sequence.
removeRelatedRecordNoSplice(g, record, field, value, isRemote) ==
  LET relationship == Rel(g, record, field)
      index == IndexOf(relationship.localState, value)
  IN IF value = Null THEN Fail(g, "expected an identifier to add to the relationship")
     ELSE IF value \notin relationship.localMembers THEN g
     ELSE IF index = 0
       THEN Fail(SetRel(g, record, field, [relationship EXCEPT !.localMembers = @ \ {value}]),
                 "expected localMembers and localState to be in sync")
     ELSE removeFromInverse(
            SetRel(g, record, field, [relationship EXCEPT !.localMembers = @ \ {value}]),
            value, DefOf(record, field).inverseKey, record, isRemote)

\* removeRelatedRecord with the early return of lines 42-44 left out.
removeRelatedRecordNoGuard(g, record, field, value, isRemote) ==
  LET relationship == Rel(g, record, field)
      index == IndexOf(relationship.localState, value)
  IN IF value = Null THEN Fail(g, "expected an identifier to add to the relationship")
     ELSE IF index = 0
       THEN Fail(SetRel(g, record, field, [relationship EXCEPT !.localMembers = @ \ {value}]),
                 "expected localMembers and localState to be in sync")
     ELSE removeFromInverse(
            SetRel(g, record, field,
                   [relationship EXCEPT !.localMembers = @ \ {value},
                                        !.localState = Splice(@, index)]),
            value, DefOf(record, field).inverseKey, record, isRemote)

\* removeRelatedRecord(graph, relationship, record, value, isRemote), with
\* relationship the hasMany edge of record at field.
removeRelatedRecord(g, record, field, value, isRemote) ==
  LET relationship == Rel(g, record, field)
      index == IndexOf(relationship.localState, value)
  IN IF value = Null THEN Fail(g, "expected an identifier to add to the relationship")
     ELSE IF value \notin relationship.localMembers THEN g
     ELSE IF index = 0
       THEN Fail(SetRel(g, record, field, [relationship EXCEPT !.localMembers = @ \ {value}]),
                 "expected localMembers and localState to be in sync")
     ELSE removeFromInverse(
            SetRel(g, record, field,
                   [relationship EXCEPT !.localMembers = @ \ {value},
                                        !.localState = Splice(@, index)]),
            value, DefOf(record, field).inverseKey, record, isRemote)

\* The loop over an array value: value[i], value[i + 1], ...
RECURSIVE removeEach(_, _, _, _, _, _)
removeEach(g, record, field, value, i, isRemote) ==
  IF g.err # "" \/ i > Len(value) THEN g
  ELSE removeEach(removeRelatedRecord(g, record, field, value[i], isRemote),
                  record, field, value, i + 1, isRemote)

\* The body of removeFromRelatedRecords after the lookup of the edge.  An
\* operation's value is held as a sequence: op.isArray tells an array from a
\* single identifier (or null), which is then the one entry of the sequence.
removeValues(g, op, isRemote) ==
  IF g.err # "" THEN g
  ELSE IF ~isHasMany(Rel(g, op.record, op.field))
    THEN Fail(g, "You can only 'removeFromRelatedRecords' on a hasMany relationship")
  ELSE IF op.isArray THEN removeEach(g, op.record, op.field, op.value, 1, isRemote)
  ELSE removeRelatedRecord(g, op.record, op.field, op.value[1], isRemote)

removeFromRelatedRecords(g, op, isRemote) ==
  removeValues(get(g, op.record, op.field), op, isRemote)

\* ------------------------------------------------------ addToRelatedRecords
addRelatedRecord(g, record, field, value, isRemote) ==
  LET relationship == Rel(g, record, field)
      members == IF isRemote THEN relationship.remoteMembers ELSE relationship.localMembers
  IN IF value = Null THEN Fail(g, "expected an identifier to add to the relationship")
     ELSE IF value \in members THEN g
     ELSE addToInverse(SetRel(g, record, field, withOnSide(relationship, value, isRemote)),
                       value, DefOf(record, field).inverseKey, record, isRemote)

RECURSIVE addEach(_, _, _, _, _, _)
addEach(g, record, field, value, i, isRemote) ==
  IF g.err # "" \/ i > Len(value) THEN g
  ELSE addEach(addRelatedRecord(g, record, field, value[i], isRemote),
               record, field, value, i + 1, isRemote)

\* What every write to a collection or resource edge ends with: a remote write
\* marks the edge as having received data and joins the transaction, a local
\* write to a collection schedules the local reconciliation.
settle(g, record, field, isRemote) ==
  IF g.err # "" THEN g
  ELSE IF isRemote
    THEN touch(SetRel(g, record, field,
                      [Rel(g, record, field) EXCEPT !.hasReceivedData = TRUE]),
               record, field, TRUE)
  ELSE IF isHasMany(Rel(g, record, field)) THEN _scheduleLocalSync(g, record, field)
  ELSE g

addValues(g, op, isRemote) ==
  IF g.err # "" THEN g
  ELSE IF ~isHasMany(Rel(g, op.record, op.field))
    THEN Fail(g, "You can only 'addToRelatedRecords' on a hasMany relationship")
  ELSE settle(addEach(g, op.record, op.field, op.value, 1, isRemote),
              op.record, op.field, isRemote)

addToRelatedRecords(g, op, isRemote) ==
  addValues(get(g, op.record, op.field), op, isRemote)

\* ----------------------------------------------------- replaceRelatedRecord
\* The three steps of a replacement whose prior value was `prior`: the prior
\* value loses its inverse, the side takes the value, the value gains its
\* inverse.
unlinkPrior(g, op, isRemote, prior) ==
  IF prior # Null /\ prior # op.value[1]
  THEN removeFromInverse(g, prior, DefOf(op.record, op.field).inverseKey, op.record, isRemote)
  ELSE g

setValue(g, op, isRemote) ==
  IF g.err # "" THEN g
  ELSE SetRel(g, op.record, op.field,
              withOnSide(Rel(g, op.record, op.field), op.value[1], isRemote))

linkValue(g, op, isRemote, prior) ==
  IF g.err # "" \/ op.value[1] = Null \/ prior = op.value[1] THEN g
  ELSE addToInverse(g, op.value[1], DefOf(op.record, op.field).inverseKey, op.record, isRemote)

replaceValue(g, op, isRemote) ==
  LET relationship == Rel(g, op.record, op.field)
      prior == IF isRemote THEN relationship.remoteState ELSE relationship.localState
  IN IF g.err # "" THEN g
     ELSE IF ~isBelongsTo(relationship)
       THEN Fail(g, "You can only 'replaceRelatedRecord' on a belongsTo relationship")
     ELSE settle(linkValue(setValue(unlinkPrior(g, op, isRemote, prior), op, isRemote),
                           op, isRemote, prior),
                 op.record, op.field, isRemote)

replaceRelatedRecord(g, op, isRemote) ==
  replaceValue(get(g, op.record, op.field), op, isRemote)

\* ---------------------------------------------------- replaceRelatedRecords
RECURSIVE removeFromInverses(_, _, _, _, _)
removeFromInverses(g, values, key, record, isRemote) ==
  IF g.err # "" \/ values = <<>> THEN g
  ELSE removeFromInverses(removeFromInverse(g, Head(values), key, record, isRemote),
                          Tail(values), key, record, isRemote)

RECURSIVE addToInverses(_, _, _, _, _)
addToInverses(g, values, key, record, isRemote) ==
  IF g.err # "" \/ values = <<>> THEN g
  ELSE addToInverses(addToInverse(g, Head(values), key, record, isRemote),
                     Tail(values), key, record, isRemote)

\* The side's sequence becomes the given list (first occurrences, in the given
\* order); members that left lose their inverse, members that came gain one.
replaceValues(g, op, isRemote) ==
  LET relationship == Rel(g, op.record, op.field)
      state == IF isRemote THEN relationship.remoteState ELSE relationship.localState
      next == Dedupe(op.value)
      inverseKey == DefOf(op.record, op.field).inverseKey
  IN IF g.err # "" THEN g
     ELSE IF ~isHasMany(relationship)
       THEN Fail(g, "You can only 'replaceRelatedRecords' on a hasMany relationship")
     ELSE IF Null \in Range(op.value)
       THEN Fail(g, "expected an identifier to add to the relationship")
     ELSE settle(
            addToInverses(
              removeFromInverses(
                SetRel(g, op.record, op.field,
                       IF isRemote
                       THEN [relationship EXCEPT !.remoteState = next,
                                                 !.remoteMembers = Range(next)]
                       ELSE [relationship EXCEPT !.localState = next,
                                                 !.localMembers = Range(next)]),
                Keep(state, Range(state) \ Range(next)), inverseKey, op.record, isRemote),
              Keep(next, Range(next) \ Range(state)), inverseKey, op.record, isRemote),
            op.record, op.field, isRemote)

replaceRelatedRecords(g, op, isRemote) ==
  replaceValues(get(g, op.record, op.field), op, isRemote)

\* updateRelationship: the payload's data applied as a remote replace.
applyPayload(g, op) ==
  IF g.err # "" THEN g
  ELSE IF isHasMany(Rel(g, op.record, op.field)) THEN replaceValues(g, op, TRUE)
  ELSE replaceValue(g, op, TRUE)

updateRelationshipOperation(g, op) ==
  applyPayload(get(g, op.record, op.field), op)

\* ------------------------------------------------------------- deleteRecord
\* The identifiers an edge holds, on either side.
membersOf(rel) ==
  IF isBelongsTo(rel) THEN {rel.localState, rel.remoteState} \ {Null}
  ELSE rel.localMembers \cup rel.remoteMembers

\* removeCompletelyFromInverse(graph, relationship): record leaves both sides
\* of the inverse edge of every identifier relationship holds.
removeCompletelyFromInverse(g, record, field, rel) ==
  LET key == DefOf(record, field).inverseKey
      held == {m \in membersOf(rel) : has(g, m, key)}
      refs == IF g.tx.open
              THEN {m \in held : ~isImplicit(Rel(g, m, key))}
              ELSE {}
      cleaned(m) ==
        LET e == withoutOnSide(withoutOnSide(Rel(g, m, key), record, TRUE), record, FALSE)
        IN IF m \in refs THEN [e EXCEPT !.transactionRef = @ + 1] ELSE e
  IN [g EXCEPT !.identifiers = [m \in Ids |->
                  IF m \in held THEN [@[m] EXCEPT !.rels[key] = cleaned(m)] ELSE @[m]],
               !.tx.rels = @ \cup {<<m, key>> : m \in refs}]

\* Object.keys(relationships) as the loops over a node's edges walk it.
FieldSeq(g, identifier) == g.identifiers[identifier].keys

\* The forEach of the deleteRecord case: each edge's slot is set to undefined
\* and the edge is removed from its inverses.
RECURSIVE severEach(_, _, _, _)
severEach(g, identifier, keys, i) ==
  IF i > Len(keys) THEN g
  ELSE IF ~isEdge(Rel(g, identifier, keys[i])) THEN severEach(g, identifier, keys, i + 1)
  ELSE severEach(removeCompletelyFromInverse(
                   SetRel(g, identifier, keys[i], Undefined),
                   identifier, keys[i], Rel(g, identifier, keys[i])),
                 identifier, keys, i + 1)

\* identifiers.delete(identifier): the edge objects of the node live on only
\* in the sets that still hold them.
deleteNode(g, identifier) ==
  [g EXCEPT !.identifiers[identifier] = NoNode,
            !.updated = {IF u.id = identifier THEN [u EXCEPT !.stale = TRUE] ELSE u : u \in @}]

deleteRecord(g, op) ==
  IF g.identifiers[op.record].exists
  THEN deleteNode(severEach(g, op.record, FieldSeq(g, op.record), 1), op.record)
  ELSE g

\* ------------------------------------------------------------- Graph.update
\* assert(msg, !isImplicit(relationship)) on the edge just looked up.
notImplicit(g, op, msg) ==
  IF g.err # "" THEN g
  ELSE IF isImplicit(Rel(g, op.record, op.field)) THEN Fail(g, msg)
  ELSE g

\* The assertion update opens with: the target of a field-carrying operation
\* is looked up (and so created) and must not be an implicit edge.
assertNotImplicit(g, op) ==
  IF op.op \in {"deleteRecord", "mergeIdentifiers"} THEN g
  ELSE notImplicit(get(g, op.record, op.field), op, "Cannot update an implicit relationship")

\* The switch of update with the two tests of isRemote left out.
dispatchAnySide(g, op, isRemote) ==
  IF g.err # "" THEN g
  ELSE CASE op.op = "updateRelationship" -> updateRelationshipOperation(g, op)
         [] op.op = "deleteRecord" -> deleteRecord(g, op)
         [] op.op = "replaceRelatedRecord" -> replaceRelatedRecord(g, op, isRemote)
         [] op.op = "addToRelatedRecords" -> addToRelatedRecords(g, op, isRemote)
         [] op.op = "removeFromRelatedRecords" -> removeFromRelatedRecords(g, op, isRemote)
         [] op.op = "replaceRelatedRecords" -> replaceRelatedRecords(g, op, isRemote)
         [] OTHER -> Fail(g, "No local relationship update operation exists")

\* The switch of update.
dispatch(g, op, isRemote) ==
  IF g.err # "" THEN g
  ELSE CASE op.op = "updateRelationship" ->
              IF ~isRemote
              THEN Fail(g, "Can only perform the operation updateRelationship on remote state")
              ELSE updateRelationshipOperation(g, op)
         [] op.op = "deleteRecord" ->
              IF ~isRemote
              THEN Fail(g, "Can only perform the operation deleteRelationship on remote state")
              ELSE deleteRecord(g, op)
         [] op.op = "replaceRelatedRecord" -> replaceRelatedRecord(g, op, isRemote)
         [] op.op = "addToRelatedRecords" -> addToRelatedRecords(g, op, isRemote)
         [] op.op = "removeFromRelatedRecords" -> removeFromRelatedRecords(g, op, isRemote)
         [] op.op = "replaceRelatedRecords" -> replaceRelatedRecords(g, op, isRemote)
         [] OTHER -> Fail(g, "No local relationship update operation exists")

update(g, op, isRemote) == dispatch(assertNotImplicit(g, op), op, isRemote)

\* --------------------------------------------------------------- Graph.push
\* The first part of push: deleteRecord and replaceRelatedRecord are bucketed
\* by their kind alone; for any other operation the edge is looked up and must
\* not be implicit.
pushLookup(g, op) ==
  IF op.op \in {"deleteRecord", "replaceRelatedRecord"} THEN g
  ELSE notImplicit(get(g, op.record, op.field), op,
                   "Cannot push a remote update for an implicit relationship")

pushBucket(g, op) ==
  IF op.op = "deleteRecord" THEN "deletions"
  ELSE IF op.op = "replaceRelatedRecord" THEN "belongsTo"
  ELSE Rel(g, op.record, op.field).kind

\* scheduleCoalesce with the test of the flag left out.
scheduleCoalesceAlways(g) ==
  [g EXCEPT !.willSyncRemote = TRUE, !.coalesceCallbacks = @ + 1]

\* The end of push: the flush is scheduled unless one is pending.
scheduleCoalesce(g) ==
  IF ~g.willSyncRemote
  THEN [g EXCEPT !.willSyncRemote = TRUE, !.coalesceCallbacks = @ + 1]
  ELSE g

enqueue(g, op) ==
  IF g.err # "" THEN g
  ELSE scheduleCoalesce([g EXCEPT !.pushedUpdates[pushBucket(g, op)] = Append(@, op)])

push(g, op) == enqueue(pushLookup(g, op), op)

\* -------------------------------------------------------------- the flushes
\* Graph._finalize
_finalize(g) ==
  IF g.tx.open
  THEN [g EXCEPT !.identifiers = [id \in Ids |-> [@[id] EXCEPT !.rels = [f \in Fields |->
                     IF <<id, f>> \in g.tx.rels /\ @[f].kind \in {"hasMany", "belongsTo"}
                     THEN [@[f] EXCEPT !.transactionRef = 0]
                     ELSE @[f]]]],
                 !.tx = [open |-> FALSE, rels |-> {}]]
  ELSE g

\* update(ops[i], true) has returned: op joins the record of what was applied.
\* An update that threw left through the flush, which ends there.
markApplied(g, op) ==
  IF g.err = "" THEN [g EXCEPT !.applied = Append(@, op)] ELSE g

\* One of the three loops of _flushRemoteQueue.
RECURSIVE updateEach(_, _, _)
updateEach(g, ops, i) ==
  IF g.err # "" \/ i > Len(ops) THEN g
  ELSE updateEach(markApplied(update(g, ops[i], TRUE), ops[i]), ops, i + 1)

\* The head of _flushRemoteQueue: the transaction opens, the flag clears, the
\* buckets are emptied.
openTransaction(g) ==
  [g EXCEPT !.tx = [open |-> TRUE, rels |-> {}],
            !.willSyncRemote = FALSE,
            !.pushedUpdates = [deletions |-> <<>>, hasMany |-> <<>>, belongsTo |-> <<>>]]

\* The last statement of _flushRemoteQueue, reached when no update threw.
finalizeFlush(g) == IF g.err # "" THEN g ELSE _finalize(g)

\* _flushRemoteQueue with the loops in another order: hasMany, deletions,
\* belongsTo.
_flushRemoteQueueHasManyFirst(g) ==
  IF ~g.willSyncRemote THEN g
  ELSE finalizeFlush(
         updateEach(
           updateEach(
             updateEach(openTransaction(g), g.pushedUpdates.hasMany, 1),
             g.pushedUpdates.deletions, 1),
           g.pushedUpdates.belongsTo, 1))

\* Graph._flushRemoteQueue
_flushRemoteQueue(g) ==
  IF ~g.willSyncRemote THEN g
  ELSE finalizeFlush(
         updateEach(
           updateEach(
             updateEach(openTransaction(g), g.pushedUpdates.deletions, 1),
             g.pushedUpdates.hasMany, 1),
           g.pushedUpdates.belongsTo, 1))

\* syncRemoteToLocal(graph, rel): the local sequence becomes the remote one
\* followed by the local-only members, in their local order.
syncRemoteToLocal(rel) ==
  LET state == rel.remoteState \o Keep(rel.localState, rel.localMembers \ rel.remoteMembers)
  IN [rel EXCEPT !.localState = state, !.localMembers = Range(state)]

\* _flushLocalQueue without the fresh set: the flag is cleared and the edges
\* stay in _updatedRelationships.
_flushLocalQueueKeepsSet(g) ==
  IF ~g.willSyncLocal THEN g
  ELSE [g EXCEPT !.willSyncLocal = FALSE,
                 !.identifiers = [id \in Ids |-> [@[id] EXCEPT !.rels = [f \in Fields |->
                     IF [id |-> id, field |-> f, stale |-> FALSE] \in g.updated
                        /\ isHasMany(@[f])
                     THEN syncRemoteToLocal(@[f])
                     ELSE @[f]]]]]

\* Graph._flushLocalQueue
_flushLocalQueue(g) ==
  IF ~g.willSyncLocal THEN g
  ELSE [g EXCEPT !.willSyncLocal = FALSE,
                 !.updated = {},
                 !.identifiers = [id \in Ids |-> [@[id] EXCEPT !.rels = [f \in Fields |->
                     IF [id |-> id, field |-> f, stale |-> FALSE] \in g.updated
                        /\ isHasMany(@[f])
                     THEN syncRemoteToLocal(@[f])
                     ELSE @[f]]]]]

\* ---------------------------------------------------------- the queries
\* What a call hands back: nothing, a boolean, an edge, or a payload.
NoRet == [kind |-> "none"]
BoolRet(b) == [kind |-> "bool", value |-> b]
EdgeRet(rel) == [kind |-> "edge", edge |-> rel]

Return(g, ret) == IF g.err # "" THEN g ELSE [g EXCEPT !.ret = ret]

\* has with the test of the slot left out: true for every field of a node.
hasCallAnyField(g, id, f) == Return(g, BoolRet(g.identifiers[id].exists))

\* Graph.has as a call: the answer, and a graph it left alone.
hasCall(g, id, f) == Return(g, BoolRet(has(g, id, f)))

\* Graph.get as a call: the edge it returns.
returnEdge(g, id, f) == Return(g, EdgeRet(Rel(g, id, f)))

getCall(g, id, f) == returnEdge(get(g, id, f), id, f)

\* legacyGetCollectionRelationshipData with the test of hasReceivedData left
\* out.
legacyGetCollectionRelationshipDataAlways(source) ==
  [kind |-> "payload", data |-> source.localState]

\* legacyGetCollectionRelationshipData: links and meta are never set here, so
\* the payload has a data field or no field.
legacyGetCollectionRelationshipData(source) ==
  IF source.hasReceivedData
  THEN [kind |-> "payload", data |-> source.localState]
  ELSE [kind |-> "payload"]

legacyGetResourceRelationshipData(source) ==
  IF source.hasReceivedData
  THEN [kind |-> "payload", data |-> source.localState]
  ELSE [kind |-> "payload"]

\* The body of getData after the lookup and the assertion.
payloadOf(g, id, f) ==
  IF g.err # "" THEN g
  ELSE IF isBelongsTo(Rel(g, id, f))
    THEN Return(g, legacyGetResourceRelationshipData(Rel(g, id, f)))
  ELSE Return(g, legacyGetCollectionRelationshipData(Rel(g, id, f)))

\* Graph.getData
getData(g, id, f) ==
  payloadOf(notImplicit(get(g, id, f), [record |-> id, field |-> f],
                        "Cannot getData() on an implicit relationship"),
            id, f)

\* The loop of isReleasable from keys[i] on.
RECURSIVE releasableFrom(_, _, _, _)
releasableFrom(g, identifier, keys, i) ==
  IF i > Len(keys) THEN Return(g, BoolRet(TRUE))
  ELSE IF ~isEdge(Rel(g, identifier, keys[i])) THEN Fail(g, "Expected a relationship")
  ELSE IF DefOf(identifier, keys[i]).inverseIsAsync THEN Return(g, BoolRet(FALSE))
  ELSE releasableFrom(g, identifier, keys, i + 1)

\* Graph.isReleasable
isReleasable(g, identifier) ==
  IF ~g.identifiers[identifier].exists THEN Return(g, BoolRet(TRUE))
  ELSE releasableFrom(g, identifier, FieldSeq(g, identifier), 1)

\* ------------------------------------------------- unload, remove, destroy
\* The edge rel with nothing on either side.
clearRelationship(rel) ==
  IF isBelongsTo(rel) THEN [rel EXCEPT !.localState = Null, !.remoteState = Null]
  ELSE IF isHasMany(rel)
    THEN [rel EXCEPT !.localMembers = {}, !.remoteMembers = {},
                     !.localState = <<>>, !.remoteState = <<>>]
  ELSE [rel EXCEPT !.localMembers = {}, !.remoteMembers = {}]

\* destroyRelationship(graph, rel): the edge of identifier at field leaves its
\* inverses, as in deleteRecord, and holds nothing afterwards.
destroyRelationship(g, identifier, field, rel) ==
  SetRel(removeCompletelyFromInverse(g, identifier, field, rel),
         identifier, field, clearRelationship(rel))

\* The statement after destroyRelationship in the loop of unload.
vacateImplicit(g, identifier, field) ==
  IF isImplicit(Rel(g, identifier, field)) THEN SetRel(g, identifier, field, Undefined)
  ELSE g

\* The loop of unload with the vacating of implicit slots left out.
RECURSIVE unloadEachKeepImplicit(_, _, _, _)
unloadEachKeepImplicit(g, identifier, keys, i) ==
  IF i > Len(keys) THEN g
  ELSE IF ~isEdge(Rel(g, identifier, keys[i]))
    THEN unloadEachKeepImplicit(g, identifier, keys, i + 1)
  ELSE unloadEachKeepImplicit(
         destroyRelationship(g, identifier, keys[i], Rel(g, identifier, keys[i])),
         identifier, keys, i + 1)

\* The forEach of unload.
RECURSIVE unloadEach(_, _, _, _)
unloadEach(g, identifier, keys, i) ==
  IF i > Len(keys) THEN g
  ELSE IF ~isEdge(Rel(g, identifier, keys[i])) THEN unloadEach(g, identifier, keys, i + 1)
  ELSE unloadEach(
         vacateImplicit(
           destroyRelationship(g, identifier, keys[i], Rel(g, identifier, keys[i])),
           identifier, keys[i]),
         identifier, keys, i + 1)

\* Graph.unload
unload(g, identifier) ==
  IF g.identifiers[identifier].exists
  THEN unloadEach(g, identifier, FieldSeq(g, identifier), 1)
  ELSE g

\* The head of remove with the assertion left out.
removeBeginUnguarded(g, identifier) ==
  unload([g EXCEPT !.removing = identifier], identifier)

\* The head of remove: the guard, the mark, the unload.
removeBegin(g, identifier) ==
  IF g.removing # Null THEN Fail(g, "Cannot remove while still removing")
  ELSE unload([g EXCEPT !.removing = identifier], identifier)

\* The end of remove, reached when nothing threw before it.
removeEnd(g, identifier) ==
  IF g.err # "" THEN g
  ELSE [deleteNode(g, identifier) EXCEPT !.removing = Null]

\* Graph.remove
remove(g, identifier) == removeEnd(removeBegin(g, identifier), identifier)

\* A change notification sent while identifier is unloaded may call back into
\* the graph: here the observer asks for the removal of `nested` (Null: it
\* does not).  What that call throws passes through unload to remove.
reenter(g, nested) ==
  IF g.err # "" \/ nested = Null THEN g ELSE remove(g, nested)

\* Graph.destroy
destroy(g) ==
  [g EXCEPT !.identifiers = [id \in Ids |-> NoNode], !.isDestroyed = TRUE]

\* ---------------------------------------------------------------- the state
VARIABLES
  identifiers,            \* Graph.identifiers, the node table
  _willSyncRemote,        \* a 'coalesce' flush is scheduled
  _willSyncLocal,         \* a 'sync' flush is scheduled
  _pushedUpdates,         \* the three buckets of pushed operations
  _updatedRelationships,  \* the collection edges awaiting the local flush
  _transaction,           \* the edges the running remote flush touched, or null
  scheduled,              \* the scheduler: callbacks it holds, per queue
  _removing,              \* the identifier remove is at work on, or null
  isDestroyed,            \* destroy has run
  last                    \* the last call: what it was and how it ended

vars == <<identifiers, _willSyncRemote, _willSyncLocal, _pushedUpdates,
          _updatedRelationships, _transaction, scheduled, _removing, isDestroyed,
          last>>

\* The graph's fields as the record the operations take.
Graph ==
  [identifiers |-> identifiers,
   tx |-> _transaction,
   updated |-> _updatedRelationships,
   willSyncLocal |-> _willSyncLocal,
   willSyncRemote |-> _willSyncRemote,
   pushedUpdates |-> _pushedUpdates,
   syncCallbacks |-> scheduled.sync,
   coalesceCallbacks |-> scheduled.coalesce,
   removing |-> _removing,
   isDestroyed |-> isDestroyed,
   applied |-> <<>>,
   ret |-> NoRet,
   err |-> ""]

\* The graph's fields become those of g.
Becomes(g) ==
  /\ identifiers' = g.identifiers
  /\ _transaction' = g.tx
  /\ _updatedRelationships' = g.updated
  /\ _willSyncLocal' = g.willSyncLocal
  /\ _willSyncRemote' = g.willSyncRemote
  /\ _pushedUpdates' = g.pushedUpdates
  /\ scheduled' = [sync |-> g.syncCallbacks, coalesce |-> g.coalesceCallbacks]
  /\ _removing' = g.removing
  /\ isDestroyed' = g.isDestroyed

RefsBounded(g) ==
  \A id \in Ids, f \in Fields :
    g.identifiers[id].rels[f].kind \in {"hasMany", "belongsTo"}
      => g.identifiers[id].rels[f].transactionRef <= MaxRef

\* ------------------------------------------------------------------- inputs
Op(kind, record, field, value, isArray) ==
  [op |-> kind, record |-> record, field |-> field, value |-> value, isArray |-> isArray]

NoOp == Op("none", "", "", <<>>, FALSE)

Buckets == {"deletions", "hasMany", "belongsTo"}

\* The remote operations callers push: a deletion, a hasMany update, a
\* belongsTo update, and two operations whose target is an implicit edge.
PushOps ==
  { Op("deleteRecord", "c1", "", <<>>, FALSE),
    Op("addToRelatedRecords", "p1", "comments", <<"c1">>, FALSE),
    Op("replaceRelatedRecord", "p1", "best", <<"c1">>, FALSE),
    Op("replaceRelatedRecord", "c1", "impBest", <<"p1">>, FALSE),
    Op("addToRelatedRecords", "c1", "impComments", <<"p1">>, FALSE) }

\* The direct calls update(op, isRemote) made while remote operations are
\* pushed and flushed.
CoreCalls ==
  { <<Op("addToRelatedRecords", "p1", "comments", <<"c1">>, FALSE), FALSE>>,
    <<Op("removeFromRelatedRecords", "p1", "comments", <<"c1">>, FALSE), FALSE>>,
    <<Op("removeFromRelatedRecords", "p1", "comments", <<"c1">>, FALSE), TRUE>> }

\* The direct calls update(op, isRemote) of the operations on their own: both
\* sides, single and array values (one with a repeated entry), the two
\* remote-only kinds, and targets of the wrong shape.
UpdateCalls ==
  CoreCalls \cup
  { <<Op("addToRelatedRecords", "p1", "comments", <<"c1">>, FALSE), TRUE>>,
    <<Op("addToRelatedRecords", "p1", "comments", <<"c2">>, FALSE), FALSE>>,
    <<Op("addToRelatedRecords", "p1", "comments", <<"c2">>, FALSE), TRUE>>,
    <<Op("removeFromRelatedRecords", "p1", "comments", <<"c1", "c1">>, TRUE), FALSE>>,
    <<Op("removeFromRelatedRecords", "p1", "comments", <<"c1", "c1">>, TRUE), TRUE>>,
    <<Op("removeFromRelatedRecords", "p1", "comments", <<"c2", "c1">>, TRUE), FALSE>>,
    <<Op("removeFromRelatedRecords", "p1", "comments", <<"c2", "c1">>, TRUE), TRUE>>,
    <<Op("removeFromRelatedRecords", "p1", "best", <<"c1">>, FALSE), FALSE>>,
    <<Op("removeFromRelatedRecords", "c1", "impComments", <<"p1">>, FALSE), FALSE>>,
    <<Op("updateRelationship", "p1", "comments", <<"c2", "c1">>, TRUE), FALSE>>,
    <<Op("updateRelationship", "p1", "comments", <<"c2", "c1">>, TRUE), TRUE>>,
    <<Op("deleteRecord", "c1", "", <<>>, FALSE), FALSE>>,
    <<Op("deleteRecord", "c1", "", <<>>, FALSE), TRUE>> }

\* What is kept of a call that took the graph to g: the call, how it ended,
\* what a flush applied, whether the node table changed, and whether the call
\* before it was the same call, ended well, and changed the table ("changed")
\* or not ("same").
Call(name, op, isRemote, g) ==
  [call |-> name, op |-> op, isRemote |-> isRemote, err |-> g.err, applied |-> g.applied,
   ret |-> g.ret,
   changed |-> g.identifiers # identifiers,
   prior |-> IF last.call = name /\ last.op = op /\ last.isRemote = isRemote /\ last.err = ""
             THEN (IF last.changed THEN "changed" ELSE "same")
             ELSE "other"]

\* ------------------------------------------------------------------ actions
Init ==
  /\ identifiers = [id \in Ids |-> NoNode]
  /\ _willSyncRemote = FALSE
  /\ _willSyncLocal = FALSE
  /\ _pushedUpdates = [deletions |-> <<>>, hasMany |-> <<>>, belongsTo |-> <<>>]
  /\ _updatedRelationships = {}
  /\ _transaction = [open |-> FALSE, rels |-> {}]
  /\ scheduled = [sync |-> 0, coalesce |-> 0]
  /\ _removing = Null
  /\ isDestroyed = FALSE
  /\ last = [call |-> "new", op |-> NoOp, isRemote |-> FALSE, err |-> "",
             applied |-> <<>>, ret |-> NoRet, changed |-> FALSE, prior |-> "other"]

\* graph.push(op)
Push ==
  \E op \in PushOps :
    LET g == push(Graph, op)
    IN /\ \A b \in Buckets : Len(g.pushedUpdates[b]) <= MaxBucket
       /\ Becomes(g)
       /\ last' = Call("push", op, TRUE, g)

\* graph.update(op, isRemote), for one of the given calls
Update(calls) ==
  \E c \in calls :
    LET g == update(Graph, c[1], c[2])
    IN RefsBounded(g) /\ Becomes(g) /\ last' = Call("update", c[1], c[2], g)

\* The scheduler runs the 'coalesce' callback: graph._flushRemoteQueue()
RunCoalesce ==
  /\ scheduled.coalesce > 0
  /\ LET g == _flushRemoteQueue([Graph EXCEPT !.coalesceCallbacks = @ - 1])
     IN RefsBounded(g) /\ Becomes(g) /\ last' = Call("coalesce", NoOp, TRUE, g)

\* The scheduler runs the 'sync' callback, after any 'coalesce' callback of the
\* turn: graph._flushLocalQueue()
RunSync ==
  /\ scheduled.sync > 0
  /\ scheduled.coalesce = 0
  /\ LET g == _flushLocalQueue([Graph EXCEPT !.syncCallbacks = @ - 1])
     IN Becomes(g) /\ last' = Call("sync", NoOp, FALSE, g)

UpdateCore == Update(CoreCalls)

UpdateAny == Update(UpdateCalls)

\* The graph in use: remote operations pushed and flushed, local ones applied.
Next == Push \/ UpdateCore \/ RunCoalesce \/ RunSync

Spec == Init /\ [][Next]_vars

\* The operations on their own: every direct call, and the local flush.
NextOps == UpdateAny \/ RunSync

SpecOps == Init /\ [][NextOps]_vars

\* A call that names an identifier and, for some calls, a field.
Query(kind, id, f) == Op(kind, id, f, <<>>, FALSE)

\* The direct calls update(op, isRemote) that fill the graph whose nodes are
\* then read, unloaded and removed.
LifeCalls ==
  { <<Op("addToRelatedRecords", "p1", "comments", <<"c1">>, FALSE), TRUE>>,
    <<Op("addToRelatedRecords", "p1", "comments", <<"c1">>, FALSE), FALSE>>,
    <<Op("replaceRelatedRecord", "p1", "best", <<"c1">>, FALSE), TRUE>> }

\* The identifiers those calls name, and the (identifier, field) pairs asked
\* for: the four the schema knows and one it cannot explain.
LifeIds == {"p1", "c1"}

LifePairs ==
  { <<"p1", "comments">>, <<"p1", "best">>, <<"c1", "impComments">>,
    <<"c1", "impBest">>, <<"p1", "impBest">> }

\* graph.has(id, field)
Has ==
  \E q \in LifePairs :
    LET id == q[1]
        f == q[2]
        g == hasCall(Graph, id, f)
    IN Becomes(g) /\ last' = Call("has", Query("has", id, f), FALSE, g)

\* graph.get(id, field)
Get ==
  /\ ~isDestroyed
  /\ \E q \in LifePairs :
       LET id == q[1]
           f == q[2]
           g == getCall(Graph, id, f)
       IN Becomes(g) /\ last' = Call("get", Query("get", id, f), FALSE, g)

\* graph.getData(id, field)
GetData ==
  /\ ~isDestroyed
  /\ \E q \in LifePairs :
       LET id == q[1]
           f == q[2]
           g == getData(Graph, id, f)
       IN Becomes(g) /\ last' = Call("getData", Query("getData", id, f), FALSE, g)

\* graph.isReleasable(id)
IsReleasable ==
  \E id \in LifeIds :
    LET g == isReleasable(Graph, id)
    IN Becomes(g) /\ last' = Call("isReleasable", Query("isReleasable", id, ""), FALSE, g)

\* graph.unload(id)
Unload ==
  /\ ~isDestroyed
  /\ \E id \in LifeIds :
       LET g == unload(Graph, id)
       IN Becomes(g) /\ last' = Call("unload", Query("unload", id, ""), FALSE, g)

\* graph.remove(id); when the unload inside it has an edge to destroy, the
\* notification it sends may call remove(nested) before remove(id) is done.
Remove ==
  /\ ~isDestroyed
  /\ \E id \in LifeIds :
       \E nested \in IF \E f \in Fields : has(Graph, id, f) THEN LifeIds \cup {Null} ELSE {Null} :
         LET g == removeEnd(reenter(removeBegin(Graph, id), nested), id)
         IN Becomes(g)
            /\ last' = Call("remove", Op("remove", id, "", <<nested>>, FALSE), FALSE, g)

\* graph.destroy()
Destroy ==
  /\ ~isDestroyed
  /\ LET g == destroy(Graph)
     IN Becomes(g) /\ last' = Call("destroy", NoOp, FALSE, g)

UpdateLife == ~isDestroyed /\ Update(LifeCalls)

\* The life of the nodes: edges made and read, nodes unloaded and removed, the
\* graph destroyed.  Of the calls on a destroyed graph only those that do not
\* reach for the store are followed.
NextLife ==
  \/ UpdateLife \/ Has \/ Get \/ GetData \/ IsReleasable
  \/ Unload \/ Remove \/ Destroy \/ RunSync

SpecLife == Init /\ [][NextLife]_vars

\* ------------------------------------------------------------ the claims
\* What the claims read of the node table: an edge that was never created (or
\* whose slot was vacated) holds nothing.
LocalOf(ids, id, f) ==
  LET rel == ids[id].rels[f]
  IN IF ~isEdge(rel) THEN {}
     ELSE IF isBelongsTo(rel) THEN {rel.localState} \ {Null}
     ELSE rel.localMembers

RemoteOf(ids, id, f) ==
  LET rel == ids[id].rels[f]
  IN IF ~isEdge(rel) THEN {}
     ELSE IF isBelongsTo(rel) THEN {rel.remoteState} \ {Null}
     ELSE rel.remoteMembers

\* The place of an operation in the order of a flush.
ClassOf(op) ==
  IF op.op = "deleteRecord" THEN 0
  ELSE IF DefOf(op.record, op.field).kind = "hasMany" THEN 1
  ELSE IF DefOf(op.record, op.field).kind = "belongsTo" THEN 2
  ELSE 3

InLog(op) == \E i \in 1..Len(last.applied) : last.applied[i] = op

\* C1: in one remote flush every queued deleteRecord is applied before any
\* operation on a hasMany field, and every operation on a hasMany field before
\* any operation on a belongsTo field; so a flush that applied deleteRecord(c1)
\* and an addition of c1 to p1.comments (or made c1 p1's best) ends with c1 in
\* that edge's remote state, the deletion having run first.
C1_FlushOrder ==
  last.call = "coalesce" =>
    /\ \A i, j \in 1..Len(last.applied) :
         i < j => ClassOf(last.applied[i]) <= ClassOf(last.applied[j])
    /\ ( InLog(Op("deleteRecord", "c1", "", <<>>, FALSE))
         /\ InLog(Op("addToRelatedRecords", "p1", "comments", <<"c1">>, FALSE)) )
       => "c1" \in RemoteOf(identifiers, "p1", "comments")
    /\ ( InLog(Op("deleteRecord", "c1", "", <<>>, FALSE))
         /\ InLog(Op("replaceRelatedRecord", "p1", "best", <<"c1">>, FALSE)) )
       => "c1" \in RemoteOf(identifiers, "p1", "best")

\* A flush that applied a deletion, a hasMany update and a belongsTo update,
\* all three about c1, which the graph now holds again.
C1_Witness ==
  /\ last.call = "coalesce"
  /\ last.err = ""
  /\ Len(last.applied) = 3
  /\ last.applied[1].op = "deleteRecord"
  /\ "p1" \in RemoteOf(identifiers, "c1", "impComments")
  /\ "p1" \in RemoteOf(identifiers, "c1", "impBest")

\* C2: each queue has at most one flush pending: the scheduler holds one
\* callback of a queue exactly while that queue's flag is set; a callback is
\* handed over only when the flag is clear, which sets it; the flag is cleared
\* only by the queue's own flush.
C2_OnePendingFlush ==
  /\ [](/\ scheduled.coalesce = (IF _willSyncRemote THEN 1 ELSE 0)
        /\ scheduled.sync = (IF _willSyncLocal THEN 1 ELSE 0))
  /\ [][/\ scheduled'.coalesce > scheduled.coalesce => (~_willSyncRemote /\ _willSyncRemote')
        /\ scheduled'.sync > scheduled.sync => (~_willSyncLocal /\ _willSyncLocal')
        /\ (_willSyncRemote /\ ~_willSyncRemote') => last'.call = "coalesce"
        /\ (_willSyncLocal /\ ~_willSyncLocal') => last'.call = "sync"]_vars

\* Both flushes pending, and a push made while the remote one was: two
\* operations wait for the one scheduled callback.
C2_Witness ==
  /\ _willSyncRemote /\ _willSyncLocal
  /\ last.call = "push" /\ last.err = ""
  /\ Len(_pushedUpdates.deletions) + Len(_pushedUpdates.hasMany)
       + Len(_pushedUpdates.belongsTo) >= 2
  /\ scheduled.coalesce = 1

LocalSeqOf(ids, id, f) ==
  LET rel == ids[id].rels[f]
  IN IF isHasMany(rel) THEN rel.localState ELSE <<>>

RemoteSeqOf(ids, id, f) ==
  LET rel == ids[id].rels[f]
  IN IF isHasMany(rel) THEN rel.remoteState ELSE <<>>

\* The last call was update with a removeFromRelatedRecords on p1.comments.
RemovedFromComments(l) ==
  /\ l.call = "update"
  /\ l.op.op = "removeFromRelatedRecords"
  /\ l.op.record = "p1"
  /\ l.op.field = "comments"

\* C3: between the calls made on the graph no remote flush is running, so the
\* transaction handle is null and every collection and resource edge has
\* transactionRef = 0.
C3_NoTransactionOutsideFlush ==
  /\ ~_transaction.open
  /\ \A id \in Ids, f \in Fields :
       identifiers[id].rels[f].kind \in {"hasMany", "belongsTo"}
         => identifiers[id].rels[f].transactionRef = 0

\* C4: a remote flush applies every operation that waited in the buckets, each
\* once, in the order deletions, hasMany, belongsTo, and leaves the buckets
\* empty; so no accepted operation is dropped and none is applied by a later
\* flush.
C4_FlushAppliesAllQueued ==
  [][last'.call = "coalesce" =>
       /\ last'.applied = _pushedUpdates.deletions \o _pushedUpdates.hasMany
                            \o _pushedUpdates.belongsTo
       /\ \A b \in Buckets : _pushedUpdates'[b] = <<>>]_vars

\* p1's edges and their inverses hold each other on the same side.
Symmetric(ids) ==
  \A c \in Comments :
    /\ c \in LocalOf(ids, "p1", "comments") <=> "p1" \in LocalOf(ids, c, "impComments")
    /\ c \in RemoteOf(ids, "p1", "comments") <=> "p1" \in RemoteOf(ids, c, "impComments")
    /\ c \in LocalOf(ids, "p1", "best") <=> "p1" \in LocalOf(ids, c, "impBest")
    /\ c \in RemoteOf(ids, "p1", "best") <=> "p1" \in RemoteOf(ids, c, "impBest")

\* C5: removeFromRelatedRecords on p1.comments, for either value of isRemote,
\* takes a symmetric graph to a symmetric graph.
C5_RemoveKeepsSymmetry ==
  [][(RemovedFromComments(last') /\ last'.err = "" /\ Symmetric(identifiers))
       => Symmetric(identifiers')]_vars

\* C6: removeFromRelatedRecords on p1.comments removes the values from the
\* set and the sequence of the side isRemote selects and leaves the set and
\* the sequence of the other side as they were.
C6_RemoveOnSelectedSide ==
  [][(RemovedFromComments(last') /\ last'.err = "") =>
       LET gone == Range(last'.op.value)
           without(state) == Keep(state, Range(state) \ gone)
       IN IF last'.isRemote
          THEN /\ RemoteOf(identifiers', "p1", "comments")
                    = RemoteOf(identifiers, "p1", "comments") \ gone
               /\ RemoteSeqOf(identifiers', "p1", "comments")
                    = without(RemoteSeqOf(identifiers, "p1", "comments"))
               /\ LocalOf(identifiers', "p1", "comments")
                    = LocalOf(identifiers, "p1", "comments")
               /\ LocalSeqOf(identifiers', "p1", "comments")
                    = LocalSeqOf(identifiers, "p1", "comments")
          ELSE /\ LocalOf(identifiers', "p1", "comments")
                    = LocalOf(identifiers, "p1", "comments") \ gone
               /\ LocalSeqOf(identifiers', "p1", "comments")
                    = without(LocalSeqOf(identifiers, "p1", "comments"))
               /\ RemoteOf(identifiers', "p1", "comments")
                    = RemoteOf(identifiers, "p1", "comments")
               /\ RemoteSeqOf(identifiers', "p1", "comments")
                    = RemoteSeqOf(identifiers, "p1", "comments")]_vars

\* C7: in every collection edge the local set is the set of entries of the
\* local sequence, which holds no identifier twice, and likewise on the remote
\* side; and no call ends on the assertion that set and sequence are in sync.
C7_MembersMatchState ==
  /\ \A id \in Ids, f \in Fields :
       LET rel == identifiers[id].rels[f]
       IN isHasMany(rel) =>
            /\ rel.localMembers = Range(rel.localState)
            /\ Len(rel.localState) = Cardinality(rel.localMembers)
            /\ rel.remoteMembers = Range(rel.remoteState)
            /\ Len(rel.remoteState) = Cardinality(rel.remoteMembers)
  /\ last.err # "expected localMembers and localState to be in sync"

\* A removal of a list that names c1 twice, from an edge that held c1 on the
\* local side and still holds c2 there.
C7_Witness ==
  /\ RemovedFromComments(last)
  /\ last.op.value = <<"c1", "c1">>
  /\ last.err = ""
  /\ last.changed
  /\ LocalSeqOf(identifiers, "p1", "comments") = <<"c2">>
  /\ "p1" \notin LocalOf(identifiers, "c1", "impComments")
  /\ "p1" \in LocalOf(identifiers, "c2", "impComments")

\* C8: removeFromRelatedRecords made a second time in a row ends without an
\* error and leaves the node table as the first call left it; and a removal
\* of values the edge does not hold (none of them is in the membership set
\* the removal tests) changes what no edge holds, on either side.
C8_RemoveIdempotent ==
  [][/\ (RemovedFromComments(last') /\ last'.prior # "other")
          => (identifiers' = identifiers /\ last'.err = "")
     /\ ( RemovedFromComments(last')
          /\ Range(last'.op.value) \cap LocalOf(identifiers, "p1", "comments") = {} )
          => /\ last'.err = ""
             /\ \A id \in Ids, f \in Fields :
                  /\ LocalOf(identifiers', id, f) = LocalOf(identifiers, id, f)
                  /\ RemoteOf(identifiers', id, f) = RemoteOf(identifiers, id, f)]_vars

\* The second of two removals of c1 in a row, the first of which took c1 out
\* of an edge that was there before it (it still holds c1 on the remote side).
C8_Witness ==
  /\ RemovedFromComments(last)
  /\ last.op.value = <<"c1">>
  /\ last.prior = "changed"
  /\ ~last.changed
  /\ "c1" \in RemoteOf(identifiers, "p1", "comments")
  /\ "c1" \notin LocalOf(identifiers, "p1", "comments")

\* C9: update(op, false) with op an updateRelationship or a deleteRecord ends
\* with an error, and the call changes what no edge holds and removes no node.
C9_RemoteOnlyKindsFail ==
  [][( /\ last'.call = "update"
       /\ ~last'.isRemote
       /\ last'.op.op \in {"updateRelationship", "deleteRecord"} )
       => /\ last'.err # ""
          /\ \A id \in Ids :
               /\ identifiers[id].exists => identifiers'[id].exists
               /\ \A f \in Fields :
                    /\ LocalOf(identifiers', id, f) = LocalOf(identifiers, id, f)
                    /\ RemoteOf(identifiers', id, f) = RemoteOf(identifiers, id, f)]_vars

\* A local deleteRecord(c1) that failed while c1 was held by p1.comments and
\* held p1 in turn.
C9_Witness ==
  /\ last.call = "update"
  /\ ~last.isRemote
  /\ last.op.op = "deleteRecord"
  /\ last.err = "Can only perform the operation deleteRelationship on remote state"
  /\ identifiers["c1"].exists
  /\ "p1" \in LocalOf(identifiers, "c1", "impComments")
  /\ "c1" \in LocalOf(identifiers, "p1", "comments")

\* C10: a push of an operation that names a field whose edge is implicit ends
\* with an error, and the operation waits in no bucket.
C10_ImplicitPushRejected ==
  ( /\ last.call = "push"
    /\ last.op.field # ""
    /\ DefOf(last.op.record, last.op.field).kind = "implicit" )
    => /\ last.err # ""
       /\ \A b \in Buckets : last.op \notin Range(_pushedUpdates[b])

\* C11: remove(id) called while a removal is in progress (_removing is not
\* null) fails and leaves the node table and the guard as they were; so does
\* a remove called from inside a removal, after which the table is what the
\* unload of the outer removal made it; a remove(id) that ends without an error
\* leaves no node for id and the guard released; and a remove called with the
\* guard released, and not called into again, ends without an error.
C11_RemoveGuarded ==
  [][last'.call = "remove" =>
       LET id == last'.op.record
           nested == last'.op.value[1]
       IN /\ _removing # Null
               => /\ last'.err = "Cannot remove while still removing"
                  /\ identifiers' = identifiers
                  /\ _removing' = _removing
          /\ nested # Null
               => /\ last'.err = "Cannot remove while still removing"
                  /\ _removing = Null
                       => identifiers' = unload(Graph, id).identifiers
          /\ last'.err = "" => (~identifiers'[id].exists /\ _removing' = Null)
          /\ (_removing = Null /\ nested = Null) => last'.err = ""]_vars

\* remove(p1) rejected while the removal of c1 is in progress, p1's node and
\* its edges still in the table.
C11_Witness ==
  /\ last.call = "remove"
  /\ last.op.record = "p1"
  /\ last.op.value = <<Null>>
  /\ last.err = "Cannot remove while still removing"
  /\ _removing = "c1"
  /\ has(Graph, "p1", "comments")

\* C12: unload(id) ends without an error, keeps the node of id in the table
\* (and makes none), keeps the slot of every hasMany and belongsTo edge of the
\* node, and vacates the slot of every implicit edge: afterwards has(id, f) is
\* false for each of those fields and get(id, f) makes an implicit edge whose
\* two sets are empty; no other node leaves the table.
C12_UnloadKeepsNode ==
  [][last'.call = "unload" =>
       LET id == last'.op.record
           after == [Graph EXCEPT !.identifiers = identifiers']
       IN /\ last'.err = ""
          /\ identifiers'[id].exists = identifiers[id].exists
          /\ \A n \in Ids : identifiers[n].exists => identifiers'[n].exists
          /\ \A f \in Fields :
               /\ (isHasMany(Rel(Graph, id, f)) \/ isBelongsTo(Rel(Graph, id, f)))
                    => /\ has(after, id, f)
                       /\ Rel(after, id, f).kind = Rel(Graph, id, f).kind
               /\ isImplicit(Rel(Graph, id, f))
                    => /\ ~has(after, id, f)
                       /\ get(after, id, f).err = ""
                       /\ Rel(get(after, id, f), id, f) = createImplicitRelationship]_vars

\* unload(c1) on a node whose implicit edge held p1: the slot is vacated, the
\* node is still there, and p1.comments no longer holds c1.
C12_Witness ==
  /\ last.call = "unload"
  /\ last.op.record = "c1"
  /\ last.changed
  /\ identifiers["c1"].exists
  /\ identifiers["c1"].rels["impComments"] = Undefined
  /\ has(Graph, "p1", "comments")
  /\ "c1" \notin LocalOf(identifiers, "p1", "comments") \cup RemoteOf(identifiers, "p1", "comments")

\* Every field of the graph but the record of the last call.
GraphFields ==
  <<identifiers, _willSyncRemote, _willSyncLocal, _pushedUpdates,
    _updatedRelationships, _transaction, scheduled, _removing, isDestroyed>>

\* C13: has(id, field) ends without an error and answers true exactly when
\* the table has a node for id whose slot for field holds an edge (false for no
\* node, a slot never set, a slot vacated), and it changes nothing of the
\* graph: no node, no edge, nothing scheduled.
C13_HasIsPure ==
  [][last'.call = "has" =>
       LET id == last'.op.record
           f == last'.op.field
       IN /\ last'.err = ""
          /\ last'.ret.kind = "bool"
          /\ last'.ret.value = (identifiers[id].exists /\ isEdge(identifiers[id].rels[f]))
          /\ UNCHANGED GraphFields]_vars

\* has(c1, impComments) answering false for a slot unload vacated, on a node
\* that is in the table.
C13_Witness ==
  /\ last.call = "has"
  /\ last.op.record = "c1"
  /\ last.op.field = "impComments"
  /\ last.ret = BoolRet(FALSE)
  /\ identifiers["c1"].exists
  /\ identifiers["c1"].rels["impComments"] = Undefined

\* The edge get makes for a definition of the given kind.
FreshEdge(kind) ==
  IF kind = "belongsTo" THEN createResourceRelationship
  ELSE IF kind = "hasMany" THEN createCollectionRelationship
  ELSE createImplicitRelationship

\* C14: on a graph that was not destroyed, get(id, field) for a field the
\* schema knows ends without an error, hands back the edge now in the slot,
\* and leaves has(id, field) true; a slot that held an edge is handed back as
\* it was, with the whole table unchanged; a slot that held none (never set, or
\* vacated) gets an empty edge of the shape of the definition's kind, on a
\* node that is made if it was not there, and nothing else changes.
C14_GetCreatesOnce ==
  [][(last'.call = "get" /\ DefOf(last'.op.record, last'.op.field) # NoDef) =>
       LET id == last'.op.record
           f == last'.op.field
           after == [Graph EXCEPT !.identifiers = identifiers']
       IN /\ last'.err = ""
          /\ has(after, id, f)
          /\ last'.ret = EdgeRet(Rel(after, id, f))
          /\ IF has(Graph, id, f)
             THEN identifiers' = identifiers
             ELSE /\ Rel(after, id, f) = FreshEdge(DefOf(id, f).kind)
                  /\ \A h \in Fields \ {f} : Rel(after, id, h) = Rel(Graph, id, h)
                  /\ \A n \in Ids \ {id} : identifiers'[n] = identifiers[n]
          /\ UNCHANGED <<_willSyncRemote, _willSyncLocal, _pushedUpdates,
                         _updatedRelationships, _transaction, scheduled,
                         _removing, isDestroyed>>]_vars

\* get(p1, comments) handing back the edge that holds c1 on the remote side,
\* the table unchanged by the call.
C14_Witness ==
  /\ last.call = "get"
  /\ last.op.record = "p1"
  /\ last.op.field = "comments"
  /\ last.err = ""
  /\ ~last.changed
  /\ last.ret = EdgeRet(identifiers["p1"].rels["comments"])
  /\ "c1" \in RemoteOf(identifiers, "p1", "comments")

\* C15: isReleasable(id) answers true when id has no node or no edge of its
\* node has an asynchronous inverse, and false when one has.
C15_ReleasableIffNoAsyncInverse ==
  last.call = "isReleasable" =>
    LET id == last.op.record
        async == \E f \in Fields :
                   /\ isEdge(identifiers[id].rels[f])
                   /\ DefOf(id, f).inverseIsAsync
    IN /\ last.ret.kind = "bool"
       /\ last.ret.value = (~identifiers[id].exists \/ ~async)

\* C16: once destroy() has run the graph is marked destroyed, its node table
\* is empty, and every call made on it since ended with an error.
C16_DestroyedRejectsCalls ==
  isDestroyed =>
    /\ \A id \in Ids : ~identifiers[id].exists
    /\ last.call # "destroy" => last.err # ""

\* The operations of a flush name c1 only in its deleteRecord.
OnlyDeletes(applied, x) ==
  /\ \E i \in 1..Len(applied) : applied[i] = Op("deleteRecord", x, "", <<>>, FALSE)
  /\ \A i \in 1..Len(applied) :
       applied[i].op # "deleteRecord" => (applied[i].record # x /\ x \notin Range(applied[i].value))

C18_DataGatedOnReceived ==
  [][last'.call = "getData" =>
       LET id == last'.op.record
           f == last'.op.field
           rel == identifiers'[id].rels[f]
       IN /\ DefOf(id, f).kind = "hasMany" =>
               /\ last'.err = ""
               /\ last'.ret.kind = "payload"
               /\ ("data" \in DOMAIN last'.ret) <=> rel.hasReceivedData
               /\ rel.hasReceivedData => last'.ret.data = rel.localState
               /\ has(Graph, id, f) => rel = identifiers[id].rels[f]
          /\ DefOf(id, f).kind = "implicit" =>
               last'.err = "Cannot getData() on an implicit relationship"]_vars

\* getData(p1, comments) on an edge that received remote data and holds c1
\* locally: the payload lists c1.
C18_Witness ==
  /\ last.call = "getData"
  /\ last.op.record = "p1"
  /\ last.op.field = "comments"
  /\ last.ret = [kind |-> "payload", data |-> <<"c1">>]
  /\ identifiers["p1"].rels["comments"].hasReceivedData

\* C19: isReleasable(id) ends without an error in every state, also for a
\* node with a slot that unload vacated.
C19_ReleasableNeverFails ==
  last.call = "isReleasable" => last.err = ""

====
